---- MODULE Spec2Model ----
(***************************************************************************)
(* Model of src/backend.py: one submission of the resume reviewer, from    *)
(* the button click through text extraction, prompt construction, the      *)
(* retried API call, response validation and rendering.                    *)
(*                                                                         *)
(* Text is a sequence of tokens (a token is a non-empty string), so the    *)
(* empty string is << >> and Python truthiness of a str is Len(t) > 0.     *)
(* Python's None is NoneVal; any other value v is Some(v).                 *)
(***************************************************************************)
EXTENDS Integers, Sequences, FiniteSets, TLC

VARIABLES
    pc,               \* position of the script inside the button handler
    job_role,         \* st.text_input value (line 50)
    job_description,  \* st.text_area value (line 54)
    selected_language_name, \* sidebar selectbox (line 34)
    apiKey,           \* st.secrets["api_keys"]["gemini"] (line 12)
    uploaded_file,    \* st.file_uploader value (line 46)
    resume_content,   \* line 217/219
    payload,          \* the request body built by get_llm_feedback (line 144)
    attempt_number,   \* tenacity's retry_state.attempt_number
    http_log,         \* outcome of every requests.post issued, in order
    slept,            \* every wait tenacity slept, in order
    response,         \* the response object returned by make_api_call_with_retry
    feedback_data,    \* first component of get_llm_feedback's return value
    error,            \* second component of get_llm_feedback's return value
    display,          \* every st.* output call of the handler, in order
    console,          \* print() output (lines 194, 197)
    raised,           \* exception raised out of make_api_call_with_retry
    escaped           \* exception that left the button handler uncaught

vars == <<pc, job_role, job_description, selected_language_name, apiKey,
          uploaded_file, resume_content, payload, attempt_number, http_log,
          slept, response, feedback_data, error, display, console, raised,
          escaped>>

(***************************************************************************)
(* Bounds of the model.                                                    *)
(***************************************************************************)
MaxPages == 2
MaxBytes == 2
MaxItems == 2

(***************************************************************************)
(* Values.                                                                 *)
(***************************************************************************)
NoneVal == [isNone |-> TRUE]
Some(v) == [isNone |-> FALSE, v |-> v]

SeqsUpTo(S, n) == UNION {[1..k -> S] : k \in 0..n}

Truthy(text) == Len(text) > 0

\* One output call of streamlit: the function and the text handed to it.
Out(fn, body) == [fn |-> fn, body |-> body]

languages == {"English", "Spanish", "French", "German"}

(***************************************************************************)
(* Inputs of a submission.                                                 *)
(***************************************************************************)
JobRoles == {<< >>, <<"Data Analyst">>}
JobDescriptions == {<< >>, <<"SQL required">>}
ApiKeys == {<< >>, <<"key">>}
LanguageChoices == {l \in languages : l \in {"English", "German"}}

\* What page.extract_text() does on one page: returns its text (possibly
\* empty), returns None (a page without a text layer), or raises.
PageTexts == {<< >>, <<"Experienced analyst...">>}
PageOutcomes == {[kind |-> "text", text |-> t] : t \in PageTexts}
                \cup {[kind |-> "none"], [kind |-> "raise"]}

\* Bytes of a text upload: 69 is "E"; 255 is never valid in UTF-8.
FileBytes == {69, 255}

UploadedFiles ==
    {[type |-> "application/pdf", opens |-> FALSE, pages |-> << >>]}
    \cup {[type |-> "application/pdf", opens |-> TRUE, pages |-> ps] :
             ps \in SeqsUpTo(PageOutcomes, MaxPages)}
    \cup {[type |-> "text/plain", bytes |-> bs] :
             bs \in SeqsUpTo(FileBytes, MaxBytes)}

(***************************************************************************)
(* extract_text_from_pdf (lines 65-73).                                    *)
(***************************************************************************)
\* "\n".join(pages): raises TypeError when an item is None.
RECURSIVE Join(_)
Join(pages) ==
    IF pages = << >> THEN << >>
    ELSE IF Len(pages) = 1 THEN pages[1]
    ELSE pages[1] \o <<"\n">> \o Join(Tail(pages))

\* Faulty variant: a failing page ends the loop and the pages read so far are kept.
RECURSIVE ExtractPages_KeepsPartial(_)
ExtractPages_KeepsPartial(ps) ==
    IF ps = << >> THEN [raises |-> FALSE, list |-> << >>]
    ELSE IF Head(ps).kind = "raise" THEN [raises |-> FALSE, list |-> << >>]
    ELSE [raises |-> FALSE,
          list |-> <<Head(ps)>> \o ExtractPages_KeepsPartial(Tail(ps)).list]

\* The list comprehension of line 69: the list of all pages' results, or the
\* exception of the first page that raises.
RECURSIVE ExtractPages(_)
ExtractPages(ps) ==
    IF ps = << >> THEN [raises |-> FALSE, list |-> << >>]
    ELSE IF Head(ps).kind = "raise" THEN [raises |-> TRUE, list |-> << >>]
    ELSE LET rest == ExtractPages(Tail(ps))
         IN  IF rest.raises THEN rest
             ELSE [raises |-> FALSE, list |-> <<Head(ps)>> \o rest.list]

\* Result of extract_text_from_pdf: the returned value and the st.error call
\* of the except branch, if taken.
extract_text_from_pdf(pdf_file) ==
    IF ~pdf_file.opens
    THEN [ret |-> NoneVal,
          out |-> <<Out("error", <<"Error extracting text from PDF: ", "open failed">>)>>]
    ELSE LET got == ExtractPages(pdf_file.pages)
         IN  IF got.raises
             THEN [ret |-> NoneVal,
                   out |-> <<Out("error", <<"Error extracting text from PDF: ", "page failed">>)>>]
             ELSE IF \E i \in 1..Len(got.list) : got.list[i].kind = "none"
             THEN [ret |-> NoneVal,
                   out |-> <<Out("error", <<"Error extracting text from PDF: ", "TypeError">>)>>]
             ELSE [ret |-> Some(Join([i \in 1..Len(got.list) |-> got.list[i].text])),
                   out |-> << >>]

(***************************************************************************)
(* uploaded_file.read().decode("utf-8") (line 219).                        *)
(***************************************************************************)
DecodeByte(b) == IF b = 69 THEN "E" ELSE "?"

DecodeUtf8(bs) ==
    IF \E i \in 1..Len(bs) : bs[i] > 127
    THEN [raises |-> TRUE, text |-> << >>]
    ELSE [raises |-> FALSE, text |-> [i \in 1..Len(bs) |-> DecodeByte(bs[i])]]

(***************************************************************************)
(* The prompt of get_llm_feedback (lines 94-146).                          *)
(***************************************************************************)
system_prompt(language_name) ==
    <<"You are an expert career coach ... Provide all your responses in ",
      language_name, ". Your final response must be a single JSON object ...">>

\* Faulty variant: the job description block is appended unconditionally.
user_query_AlwaysAppends(resume_text, role, description) ==
    <<"Here is the resume to be reviewed:\n\n---\n">> \o resume_text
    \o <<"\n---\n\nTarget Job Role: ">> \o role \o <<"\n\n">>
    \o <<"Here is the job description for a more tailored review:\n\n---\n">>
    \o description \o <<"\n---">>

\* Lines 140-142: the f-string, then the job description block appended when
\* job_description is truthy.
user_query(resume_text, role, description) ==
    LET base == <<"Here is the resume to be reviewed:\n\n---\n">> \o resume_text
                \o <<"\n---\n\nTarget Job Role: ">> \o role \o <<"\n\n">>
    IN  IF Truthy(description)
        THEN base \o <<"Here is the job description for a more tailored review:\n\n---\n">>
                  \o description \o <<"\n---">>
        ELSE base

\* Lines 144-179 (the response schema is a constant of the request).
BuildPayload(resume_text, role, description, language_name) ==
    [contents |-> user_query(resume_text, role, description),
     systemInstruction |-> system_prompt(language_name),
     responseMimeType |-> "application/json"]

(***************************************************************************)
(* The retry policy of line 76, as tenacity applies it.                    *)
(***************************************************************************)
max_attempt_number == 5
multiplier == 2
exp_base == 2
min_wait == 5
max_wait == 15

Min(a, b) == IF a <= b THEN a ELSE b
Max(a, b) == IF a >= b THEN a ELSE b

RECURSIVE Pow(_, _)
Pow(b, e) == IF e <= 0 THEN 1 ELSE b * Pow(b, e - 1)

\* Faulty variant: the stop condition is off by one.
stop_after_attempt_OffByOne(n) == n > max_attempt_number

\* stop_after_attempt(5): stop once attempt_number >= max_attempt_number.
stop_after_attempt(n) == n >= max_attempt_number

\* Faulty variant: the floor `min` is not applied.
wait_exponential_NoFloor(n) == Min(multiplier * Pow(exp_base, n - 1), max_wait)

\* wait_exponential(multiplier=2, min=5, max=15) after failed attempt n:
\* max(max(0, min), min(multiplier * exp_base ** (n - 1), max)).
wait_exponential(n) ==
    Max(Max(0, min_wait), Min(multiplier * Pow(exp_base, n - 1), max_wait))

\* What one requests.post + raise_for_status can do besides returning.
FailureOutcomes == {"ConnectionError", "HTTPError"}

(***************************************************************************)
(* Bodies of a 2xx response.                                               *)
(***************************************************************************)
DropKey(f, k) == [x \in (DOMAIN f) \ {k} |-> f[x]]

Strengths == {"Clear structure", "Quantified results"}

\* A suggestion object: complete, missing a key, or with an empty string.
SuggestionEntries ==
    {[heading |-> "Clarity & Brevity", advice |-> "Shorten the summary."],
     [heading |-> "Missing Keywords", advice |-> "Add SQL."],
     [advice |-> "Shorten the summary."],
     [heading |-> "Missing Keywords"],
     [heading |-> "", advice |-> "Add SQL."]}

ReviewJson(strengths, suggestions) ==
    [feedback_report |-> [areas_of_strength |-> strengths,
                          suggestions_for_improvement |-> suggestions],
     final_score |-> [rating |-> "7", summary |-> "Solid resume."],
     improved_resume |-> "# Improved resume"]

\* Objects that follow the schema of lines 149-177 with every key present.
DefaultReview ==
    ReviewJson(<<"Clear structure">>,
               <<[heading |-> "Clarity & Brevity", advice |-> "Shorten the summary."]>>)

\* Objects that follow the schema of lines 149-177 with every key present:
\* either list varies while the other keeps its default.
WellFormedReviews ==
    {[DefaultReview EXCEPT !.feedback_report.areas_of_strength = st] :
        st \in SeqsUpTo(Strengths, MaxItems)}
    \cup {[DefaultReview EXCEPT !.feedback_report.suggestions_for_improvement = su] :
             su \in SeqsUpTo(SuggestionEntries, MaxItems)}

\* The default object with one required key removed, and the empty object.
IncompleteReviews ==
    {DropKey(DefaultReview, k) : k \in {"feedback_report", "final_score", "improved_resume"}}
    \cup {[DefaultReview EXCEPT !.final_score = DropKey(@, k)] : k \in {"rating", "summary"}}
    \cup {[DefaultReview EXCEPT !.feedback_report = DropKey(@, k)] :
             k \in {"areas_of_strength", "suggestions_for_improvement"}}
    \cup {DropKey([a |-> 0], "a")}

\* The text of candidates[0].content.parts[0]: a JSON document or not.
EmbeddedTexts ==
    {[syntax |-> "invalid"]}
    \cup {[syntax |-> "json", value |-> v] : v \in WellFormedReviews \cup IncompleteReviews}

Candidates ==
    {[finishReason |-> "SAFETY"],
     [content |-> [role |-> "model"]],
     [content |-> [parts |-> << >>]]}
    \cup {[content |-> [parts |-> <<[text |-> t]>>]] : t \in EmbeddedTexts}

ResponseBodies ==
    {[json |-> FALSE],
     [json |-> TRUE, data |-> [promptFeedback |-> "BLOCKED"]],
     [json |-> TRUE, data |-> [candidates |-> << >>]]}
    \cup {[json |-> TRUE, data |-> [candidates |-> <<c>>]] : c \in Candidates}

\* json.loads (line 188).
json_loads(text) ==
    IF text.syntax = "json" THEN [raises |-> "", value |-> text.value]
    ELSE [raises |-> "JSONDecodeError", value |-> NoneVal]

(***************************************************************************)
(* get_llm_feedback after the call returned (lines 183-200): the returned  *)
(* pair, the st.error of the RequestException branch and what is printed.  *)
(***************************************************************************)
Returned(data, err, out, printed) ==
    [feedback_data |-> data, error |-> err, out |-> out, printed |-> printed]

ProcessingIssue(e) ==
    Returned(NoneVal,
             Some(<<"There was an issue processing the AI's response: ", e,
                    ". The AI may have provided an unexpected output format.">>),
             << >>, << >>)

\* Faulty variant: the length of `candidates` is not checked.
HasCandidates_KeyOnly(data) == "candidates" \in DOMAIN data

\* Line 186.
HasCandidates(data) ==
    "candidates" \in DOMAIN data /\ Len(data["candidates"]) > 0

\* Lines 187-188: data['candidates'][0]['content']['parts'][0]['text'], then
\* json.loads; a KeyError, IndexError or JSONDecodeError goes to line 199.
ReadCandidate(candidates) ==
    IF Len(candidates) = 0 THEN ProcessingIssue("IndexError")
    ELSE IF "content" \notin DOMAIN candidates[1] THEN ProcessingIssue("KeyError: 'content'")
    ELSE IF "parts" \notin DOMAIN candidates[1]["content"]
         THEN ProcessingIssue("KeyError: 'parts'")
    ELSE IF Len(candidates[1]["content"]["parts"]) = 0 THEN ProcessingIssue("IndexError")
    ELSE IF "text" \notin DOMAIN candidates[1]["content"]["parts"][1]
         THEN ProcessingIssue("KeyError: 'text'")
    ELSE LET parsed == json_loads(candidates[1]["content"]["parts"][1]["text"])
         IN  IF parsed.raises # "" THEN ProcessingIssue(parsed.raises)
             ELSE Returned(Some(parsed.value), NoneVal, << >>, << >>)

ProcessResponse(body) ==
    IF ~body.json
    THEN \* response.json() raises requests' JSONDecodeError, a RequestException
         Returned(NoneVal,
                  Some(<<"An API error occurred. Please check the console for details.">>),
                  <<Out("error", <<"API request failed. Please check your API key and network connection. Details are logged to the console.">>)>>,
                  <<"API request failed with error:", "Response content:">>)
    ELSE IF HasCandidates(body.data)
    THEN ReadCandidate(body.data["candidates"])
    ELSE Returned(NoneVal,
                  Some(<<"Could not get a response from the AI. Please try again.">>),
                  << >>, << >>)

(***************************************************************************)
(* The except clause of the button handler (line 273).                     *)
(***************************************************************************)
\* Faulty variant: the handler has no except clause.
HandlerCatches_Nothing(exc) == FALSE

HandlerCatches(exc) == exc = "RetryError"

Unavailable ==
    Out("error", <<"The API is currently unavailable. Please try again in a few moments.">>)

(***************************************************************************)
(* Rendering (lines 233-258).  A block of output calls runs until the      *)
(* first KeyError: `out` is what was displayed before it.                  *)
(***************************************************************************)
Block(out, raises) == [out |-> out, raises |-> raises]

\* Faulty variant: only the presence of the keys is tested, not their values.
Shown_KeysOnly(suggestion) ==
    "heading" \in DOMAIN suggestion /\ "advice" \in DOMAIN suggestion

\* Line 248: `if heading and advice` on the values of .get().
Shown(suggestion) ==
    /\ "heading" \in DOMAIN suggestion
    /\ "advice" \in DOMAIN suggestion
    /\ suggestion["heading"] # ""
    /\ suggestion["advice"] # ""

RECURSIVE StrengthLines(_)
StrengthLines(ss) ==
    IF ss = << >> THEN << >>
    ELSE <<Out("markdown", <<"- ", Head(ss)>>)>> \o StrengthLines(Tail(ss))

RECURSIVE SuggestionLines(_)
SuggestionLines(ss) ==
    IF ss = << >> THEN << >>
    ELSE (IF Shown(Head(ss))
          THEN <<Out("markdown", <<"**", Head(ss)["heading"], ":** ", Head(ss)["advice"]>>)>>
          ELSE << >>)
         \o SuggestionLines(Tail(ss))

\* Lines 233-235.
ScoreBlock(fd, role) ==
    LET header == <<Out("markdown", <<"### Resume Review for ">> \o role)>>
        score == fd["final_score"]
    IN  IF "rating" \notin DOMAIN score THEN Block(header, "KeyError")
        ELSE IF "summary" \notin DOMAIN score
        THEN Block(header \o <<Out("markdown", <<"**Overall Rating:** ", score["rating"], "/10">>)>>,
                   "KeyError")
        ELSE Block(header
                   \o <<Out("markdown", <<"**Overall Rating:** ", score["rating"], "/10">>),
                        Out("markdown", <<"**Summary:** ", score["summary"]>>)>>,
                   "")

\* Lines 237-239.
StrengthsBlock(fd) ==
    LET title == <<Out("markdown", <<"### Areas of Strength">>)>>
    IN  IF "feedback_report" \notin DOMAIN fd THEN Block(title, "KeyError")
        ELSE IF "areas_of_strength" \notin DOMAIN fd["feedback_report"]
        THEN Block(title, "KeyError")
        ELSE Block(title \o StrengthLines(fd["feedback_report"]["areas_of_strength"]), "")

\* Lines 241-252.
SuggestionsBlock(fd) ==
    LET title == <<Out("markdown", <<"### Suggestions for Improvement">>)>>
    IN  IF "feedback_report" \notin DOMAIN fd THEN Block(title, "KeyError")
        ELSE IF "suggestions_for_improvement" \notin DOMAIN fd["feedback_report"]
        THEN Block(title, "KeyError")
        ELSE Block(title
                   \o SuggestionLines(fd["feedback_report"]["suggestions_for_improvement"]),
                   "")

\* Lines 254-258.
ImprovedBlock(fd) ==
    LET title == <<Out("markdown", <<"### Improved Resume Version">>)>>
    IN  IF "improved_resume" \notin DOMAIN fd THEN Block(title, "KeyError")
        ELSE Block(title \o <<Out("code", <<fd["improved_resume"]>>),
                              Out("write", <<"---">>),
                              Out("success", <<"Analysis complete!">>)>>,
                   "")

(***************************************************************************)
(* The state machine of one submission.                                    *)
(***************************************************************************)
Init ==
    /\ pc = "Idle"
    /\ job_role = << >>
    /\ job_description = << >>
    /\ selected_language_name = "English"
    /\ apiKey = << >>
    /\ uploaded_file = NoneVal
    /\ resume_content = NoneVal
    /\ payload = NoneVal
    /\ attempt_number = 0
    /\ http_log = << >>
    /\ slept = << >>
    /\ response = NoneVal
    /\ feedback_data = NoneVal
    /\ error = NoneVal
    /\ display = << >>
    /\ console = << >>
    /\ raised = ""
    /\ escaped = ""

\* Faulty variant: the API key is not checked.
Preconditions_NoKeyCheck(role, file, key) ==
    IF ~Truthy(role) THEN <<Out("warning", <<"Please specify a target job role.">>)>>
    ELSE IF file = NoneVal THEN <<Out("warning", <<"Please upload a resume file.">>)>>
    ELSE << >>

\* Lines 205-213: the checks made before the resume is read; the message of
\* the first one that fails, or << >> when all pass.
Preconditions(role, file, key) ==
    IF ~Truthy(role) THEN <<Out("warning", <<"Please specify a target job role.">>)>>
    ELSE IF file = NoneVal THEN <<Out("warning", <<"Please upload a resume file.">>)>>
    ELSE IF ~Truthy(key)
    THEN <<Out("error", <<"API key not found. Please set the Gemini API key in your .streamlit/secrets.toml file.">>)>>
    ELSE << >>

\* The user fills the widgets and clicks "Get Resume Feedback" (lines 204-214).
Submit ==
    /\ pc = "Idle"
    /\ \E role \in JobRoles, description \in JobDescriptions,
          language \in LanguageChoices, key \in ApiKeys,
          file \in UploadedFiles \cup {NoneVal} :
          /\ job_role' = role
          /\ job_description' = description
          /\ selected_language_name' = language
          /\ apiKey' = key
          /\ uploaded_file' = file
          /\ display' = Preconditions(role, file, key)
          /\ pc' = IF Preconditions(role, file, key) = << >> THEN "ReadResume" ELSE "Done"
    /\ UNCHANGED <<resume_content, payload, attempt_number, http_log, slept,
                   response, feedback_data, error, console, raised, escaped>>

\* Lines 216-219: the content read from the upload, what reading displayed,
\* and the exception it let through.
ReadUpload(file) ==
    IF file.type = "application/pdf"
    THEN LET r == extract_text_from_pdf(file)
         IN  [content |-> r.ret, out |-> r.out, raises |-> ""]
    ELSE LET d == DecodeUtf8(file.bytes)
         IN  IF d.raises
             THEN [content |-> NoneVal, out |-> << >>, raises |-> "UnicodeDecodeError"]
             ELSE [content |-> Some(d.text), out |-> << >>, raises |-> ""]

\* Line 221: `if resume_content`.
HasContent(content) == content # NoneVal /\ Truthy(content.v)

\* Lines 216-223.
ReadResume ==
    /\ pc = "ReadResume"
    /\ LET r == ReadUpload(uploaded_file)
       IN  /\ resume_content' = r.content
           /\ escaped' = r.raises
           /\ IF r.raises = "" /\ HasContent(r.content)
              THEN /\ display' = display \o r.out
                                 \o <<Out("subheader", <<"AI Feedback Report">>),
                                      Out("write", <<"---">>)>>
                   /\ pc' = "GetFeedback"
              ELSE /\ display' = display \o r.out
                   /\ pc' = "Done"
    /\ UNCHANGED <<job_role, job_description, selected_language_name, apiKey,
                   uploaded_file, payload, attempt_number, http_log, slept,
                   response, feedback_data, error, console, raised>>

\* get_llm_feedback up to the call (lines 87-182); the early return of line 91
\* is displayed by line 230.
BuildRequest ==
    /\ pc = "GetFeedback"
    /\ IF ~HasContent(resume_content)
       THEN /\ error' = Some(<<"Please upload a resume to get feedback.">>)
            /\ display' = display
                          \o <<Out("error", <<"Please upload a resume to get feedback.">>)>>
            /\ pc' = "Done"
            /\ UNCHANGED <<payload, attempt_number>>
       ELSE /\ payload' = Some(BuildPayload(resume_content.v, job_role, job_description,
                                            selected_language_name))
            /\ attempt_number' = 1
            /\ pc' = "Calling"
            /\ UNCHANGED <<error, display>>
    /\ UNCHANGED <<job_role, job_description, selected_language_name, apiKey,
                   uploaded_file, resume_content, http_log, slept, response,
                   feedback_data, console, raised, escaped>>

\* One attempt of make_api_call_with_retry that raises (lines 79-84).  When
\* tenacity stops it raises RetryError, which no except clause of
\* get_llm_feedback names; the handler's clause decides whether it is caught.
AttemptFails ==
    /\ pc = "Calling"
    /\ \E outcome \in FailureOutcomes :
          http_log' = Append(http_log, [outcome |-> outcome, sent |-> payload.v])
    /\ IF stop_after_attempt(attempt_number)
       THEN /\ raised' = "RetryError"
            /\ pc' = "Done"
            /\ IF HandlerCatches("RetryError")
               THEN display' = Append(display, Unavailable) /\ escaped' = escaped
               ELSE display' = display /\ escaped' = "RetryError"
       ELSE /\ pc' = "Sleeping"
            /\ UNCHANGED <<raised, display, escaped>>
    /\ UNCHANGED <<job_role, job_description, selected_language_name, apiKey,
                   uploaded_file, resume_content, payload, attempt_number, slept,
                   response, feedback_data, error, console>>

\* tenacity sleeps, then starts the next attempt.
Backoff ==
    /\ pc = "Sleeping"
    /\ slept' = Append(slept, wait_exponential(attempt_number))
    /\ attempt_number' = attempt_number + 1
    /\ pc' = "Calling"
    /\ UNCHANGED <<job_role, job_description, selected_language_name, apiKey,
                   uploaded_file, resume_content, payload, http_log, response,
                   feedback_data, error, display, console, raised, escaped>>

\* One attempt that returns a 2xx response (lines 79-85).
AttemptSucceeds ==
    /\ pc = "Calling"
    /\ \E body \in ResponseBodies :
          /\ http_log' = Append(http_log, [outcome |-> "ok", sent |-> payload.v])
          /\ response' = Some(body)
    /\ pc' = "Validating"
    /\ UNCHANGED <<job_role, job_description, selected_language_name, apiKey,
                   uploaded_file, resume_content, payload, attempt_number, slept,
                   feedback_data, error, display, console, raised, escaped>>

\* Line 231: `feedback_data and "final_score" in feedback_data`.
Renderable(data) ==
    data # NoneVal /\ DOMAIN data.v # {} /\ "final_score" \in DOMAIN data.v

\* Lines 183-200, then the dispatch of lines 229-231 and 270-271.
Validate ==
    /\ pc = "Validating"
    /\ LET r == ProcessResponse(response.v)
       IN  /\ feedback_data' = r.feedback_data
           /\ error' = r.error
           /\ console' = console \o r.printed
           /\ IF r.error # NoneVal
              THEN /\ display' = display \o r.out \o <<Out("error", r.error.v)>>
                   /\ pc' = "Done"
              ELSE IF Renderable(r.feedback_data)
              THEN /\ display' = display \o r.out
                   /\ pc' = "RenderScore"
              ELSE /\ display' = display \o r.out
                                 \o <<Out("error", <<"The AI returned an invalid or incomplete response. Please try again.">>)>>
                   /\ pc' = "Done"
    /\ UNCHANGED <<job_role, job_description, selected_language_name, apiKey,
                   uploaded_file, resume_content, payload, attempt_number,
                   http_log, slept, response, raised, escaped>>

\* A block of the report is displayed; a KeyError leaves the handler, whose
\* only except clause names RetryError.
Render(block, next) ==
    /\ display' = display \o block.out
    /\ IF block.raises = "" THEN pc' = next /\ escaped' = escaped
       ELSE IF HandlerCatches(block.raises)
       THEN pc' = "Done" /\ escaped' = escaped
       ELSE pc' = "Done" /\ escaped' = block.raises
    /\ UNCHANGED <<job_role, job_description, selected_language_name, apiKey,
                   uploaded_file, resume_content, payload, attempt_number,
                   http_log, slept, response, feedback_data, error, console, raised>>

RenderScore == pc = "RenderScore" /\ Render(ScoreBlock(feedback_data.v, job_role), "RenderStrengths")

RenderStrengths ==
    pc = "RenderStrengths" /\ Render(StrengthsBlock(feedback_data.v), "RenderSuggestions")

RenderSuggestions ==
    pc = "RenderSuggestions" /\ Render(SuggestionsBlock(feedback_data.v), "RenderImproved")

RenderImproved == pc = "RenderImproved" /\ Render(ImprovedBlock(feedback_data.v), "Done")

Next ==
    \/ Submit
    \/ ReadResume
    \/ BuildRequest
    \/ AttemptFails
    \/ Backoff
    \/ AttemptSucceeds
    \/ Validate
    \/ RenderScore
    \/ RenderStrengths
    \/ RenderSuggestions
    \/ RenderImproved

Spec == Init /\ [][Next]_vars

(***************************************************************************)
(* Vocabulary of the properties.                                           *)
(***************************************************************************)
Finished == pc = "Done"

IsMessage(o) == o.fn \in {"warning", "error"}
IsReportPart(o) == o.fn \in {"markdown", "code", "success"}

MessageShown == \E i \in 1..Len(display) : IsMessage(display[i])
NoReportPart == \A i \in 1..Len(display) : ~IsReportPart(display[i])

PreCallDisplay == <<Out("subheader", <<"AI Feedback Report">>), Out("write", <<"---">>)>>

\* The two terminal states of a submission.
Rendered ==
    /\ Finished
    /\ escaped = ""
    /\ ~MessageShown
    /\ Len(display) >= 3
    /\ display[Len(display)] = Out("success", <<"Analysis complete!">>)
    /\ display[Len(display) - 2].fn = "code"

Failed ==
    /\ Finished
    /\ escaped = ""
    /\ MessageShown
    /\ NoReportPart

ResponseReceived == response # NoneVal

RequiredTopKeys == {"feedback_report", "final_score", "improved_resume"}

MissesRequiredKey(v) ==
    \/ RequiredTopKeys \ DOMAIN v # {}
    \/ "final_score" \in DOMAIN v /\ {"rating", "summary"} \ DOMAIN v["final_score"] # {}
    \/ /\ "feedback_report" \in DOMAIN v
       /\ {"areas_of_strength", "suggestions_for_improvement"}
              \ DOMAIN v["feedback_report"] # {}

\* The embedded text of the response, when the response carries one.
HasEmbeddedText ==
    /\ ResponseReceived
    /\ response.v.json
    /\ "candidates" \in DOMAIN response.v.data
    /\ response.v.data["candidates"] # << >>
    /\ "content" \in DOMAIN response.v.data["candidates"][1]
    /\ "parts" \in DOMAIN response.v.data["candidates"][1]["content"]
    /\ response.v.data["candidates"][1]["content"]["parts"] # << >>
    /\ "text" \in DOMAIN response.v.data["candidates"][1]["content"]["parts"][1]

EmbeddedText == response.v.data["candidates"][1]["content"]["parts"][1]["text"]

EmbeddedIsMalformed ==
    /\ HasEmbeddedText
    /\ \/ EmbeddedText.syntax # "json"
       \/ MissesRequiredKey(EmbeddedText.value)

EmbeddedIsWellFormed ==
    /\ HasEmbeddedText
    /\ EmbeddedText.syntax = "json"
    /\ ~MissesRequiredKey(EmbeddedText.value)

(***************************************************************************)
(* C1.  A received response whose embedded text is not JSON, or is JSON    *)
(* missing a required key, ends the submission in Failed: a message is     *)
(* displayed, no exception leaves the handler and no part of a report is   *)
(* displayed.                                                              *)
(***************************************************************************)
C1_MalformedResponseFails ==
    (Finished /\ EmbeddedIsMalformed) => (Failed /\ escaped = "" /\ NoReportPart)

(***************************************************************************)
(* C2.  One call of make_api_call_with_retry issues at most 5 attempts,    *)
(* none after the first successful one, and RetryError is raised only      *)
(* after exactly 5 attempts, all failed.                                   *)
(***************************************************************************)
C2_AtMostFiveAttempts ==
    /\ Len(http_log) <= 5
    /\ \A i \in 1..Len(http_log) : http_log[i].outcome = "ok" => i = Len(http_log)
    /\ raised = "RetryError" =>
          /\ Len(http_log) = 5
          /\ \A i \in 1..5 : http_log[i].outcome # "ok"

C2_Witness == raised = "RetryError" /\ Len(http_log) = 5

(***************************************************************************)
(* C3, as amended.  After failed attempt n (1..4) tenacity waits           *)
(* min(max(2 * 2^(n-1), 5), 15) seconds: 5, 5, 8, 15.  Every wait lies in  *)
(* [5, 15], the waits never decrease, and one wait is slept per failed     *)
(* attempt that is retried.                                                *)
(***************************************************************************)
C3_WaitSchedule ==
    /\ Len(slept) <= 4
    /\ \A n \in 1..Len(slept) :
          /\ slept[n] = Min(Max(2 * Pow(2, n - 1), 5), 15)
          /\ slept[n] = <<5, 5, 8, 15>>[n]
          /\ 5 <= slept[n] /\ slept[n] <= 15
          /\ n > 1 => slept[n - 1] <= slept[n]
    /\ pc = "Calling" => Len(slept) = Len(http_log)

C3_Witness == Len(slept) = 4 /\ slept[4] = 15

\* C3 as stated: the wait after failed attempt n is min(max(2 * 2^n, 5), 15),
\* within [5, 15] and non-decreasing.
C3_WaitSchedule_AsClaimed ==
    \A n \in 1..Len(slept) :
        /\ slept[n] = Min(Max(2 * Pow(2, n), 5), 15)
        /\ 5 <= slept[n] /\ slept[n] <= 15
        /\ n > 1 => slept[n - 1] <= slept[n]

(***************************************************************************)
(* C4.  No HTTP attempt is made unless job_role is non-empty, a file was   *)
(* uploaded, the API key is non-empty and extraction produced non-empty    *)
(* text without raising; a submission where one of these fails issues no   *)
(* attempt.                                                                *)
(***************************************************************************)
ExtractionErrorShown ==
    \E i \in 1..Len(display) :
        display[i].fn = "error" /\ display[i].body[1] = "Error extracting text from PDF: "

C4_NoCallWithoutPreconditions ==
    (Len(http_log) > 0 \/ payload # NoneVal) =>
        /\ Truthy(job_role)
        /\ uploaded_file # NoneVal
        /\ Truthy(apiKey)
        /\ resume_content # NoneVal
        /\ Truthy(resume_content.v)
        /\ ~ExtractionErrorShown
        /\ escaped # "UnicodeDecodeError"

C4_Witness ==
    /\ Finished
    /\ Truthy(job_role) /\ Truthy(apiKey)
    /\ uploaded_file # NoneVal
    /\ uploaded_file.type = "application/pdf"
    /\ ExtractionErrorShown
    /\ Len(http_log) = 0

(***************************************************************************)
(* C5.  When all 5 attempts fail the user is shown the "API is currently   *)
(* unavailable" message and nothing else about the failure (no uncaught    *)
(* exception, no generic API error); when an attempt succeeds after        *)
(* earlier failures, validation starts from the state a first-attempt      *)
(* success starts from: nothing of the failures is displayed, printed or   *)
(* returned.                                                               *)
(***************************************************************************)
C5_RetryFailuresHidden ==
    /\ raised = "RetryError" =>
          /\ Finished
          /\ escaped = ""
          /\ display = Append(PreCallDisplay, Unavailable)
          /\ error = NoneVal /\ feedback_data = NoneVal /\ console = << >>
    /\ pc = "Validating" =>
          /\ http_log[Len(http_log)].outcome = "ok"
          /\ display = PreCallDisplay
          /\ escaped = "" /\ raised = ""
          /\ error = NoneVal /\ feedback_data = NoneVal /\ console = << >>

C5_Witness ==
    pc = "Validating" /\ Len(http_log) = 5 /\ http_log[1].outcome = "HTTPError"

(***************************************************************************)
(* C6.  Every submission that has ended is in exactly one of Rendered      *)
(* (complete report, success notice) and Failed (a warning or error        *)
(* message displayed).                                                     *)
(***************************************************************************)
C6_EndsRenderedOrFailed == Finished => (Rendered /\ ~Failed) \/ (Failed /\ ~Rendered)

(***************************************************************************)
(* C7.  A received response whose `candidates` is missing or empty makes   *)
(* get_llm_feedback return (None, "Could not get a response from the       *)
(* AI..."); the message is displayed, no part of a report is, and no       *)
(* further HTTP attempt follows.                                           *)
(***************************************************************************)
NoCandidates ==
    /\ ResponseReceived
    /\ response.v.json
    /\ \/ "candidates" \notin DOMAIN response.v.data
       \/ response.v.data["candidates"] = << >>

EmptyResponseMessage == <<"Could not get a response from the AI. Please try again.">>

C7_NoCandidatesIsEmptyResponse ==
    (NoCandidates /\ pc # "Validating") =>
        /\ Finished
        /\ feedback_data = NoneVal
        /\ error = Some(EmptyResponseMessage)
        /\ display = Append(PreCallDisplay, Out("error", EmptyResponseMessage))
        /\ escaped = ""
        /\ http_log[Len(http_log)].outcome = "ok"

C7_Witness ==
    /\ Finished
    /\ NoCandidates
    /\ "candidates" \in DOMAIN response.v.data
    /\ Len(http_log) = 3

(***************************************************************************)
(* C8, as amended.  For a well-formed payload the finished report shows    *)
(* one bullet per element of areas_of_strength in input order, one         *)
(* heading/advice line, in input order, for each suggestion whose heading  *)
(* and advice are both present and non-empty, nothing for any other        *)
(* suggestion, and always ends with the improved resume and the success    *)
(* notice.                                                                 *)
(***************************************************************************)
IsBullet(o) == o.fn = "markdown" /\ o.body[1] = "- "
IsSuggestionLine(o) == o.fn = "markdown" /\ o.body[1] = "**"

HasBothKeys(e) == {"heading", "advice"} \subseteq DOMAIN e
HasBothNonEmpty(e) == HasBothKeys(e) /\ e["heading"] # "" /\ e["advice"] # ""

ReviewShown == feedback_data.v["feedback_report"]

\* The bullets are the strengths, in order.
BulletsMatchStrengths ==
    LET bullets == SelectSeq(display, IsBullet)
        strengths == ReviewShown["areas_of_strength"]
    IN  /\ Len(bullets) = Len(strengths)
        /\ \A i \in 1..Len(strengths) : bullets[i].body = <<"- ", strengths[i]>>

\* The suggestion lines are the suggestions of `kept`, in order.
LinesMatch(kept) ==
    LET lines == SelectSeq(display, IsSuggestionLine)
    IN  /\ Len(lines) = Len(kept)
        /\ \A i \in 1..Len(kept) :
              lines[i].body = <<"**", kept[i]["heading"], ":** ", kept[i]["advice"]>>

ReportCompleted ==
    /\ Rendered
    /\ display[Len(display) - 2] = Out("code", <<feedback_data.v["improved_resume"]>>)

RenderingOver == Finished /\ EmbeddedIsWellFormed

C8_ReportFollowsPayload ==
    RenderingOver =>
        /\ BulletsMatchStrengths
        /\ LinesMatch(SelectSeq(ReviewShown["suggestions_for_improvement"], HasBothNonEmpty))
        /\ ReportCompleted

C8_Witness ==
    /\ RenderingOver
    /\ Len(ReviewShown["suggestions_for_improvement"]) = 2
    /\ "heading" \notin DOMAIN ReviewShown["suggestions_for_improvement"][1]
    /\ HasBothNonEmpty(ReviewShown["suggestions_for_improvement"][2])

\* C8 as stated: a line is shown for each suggestion that has both `heading`
\* and `advice`.
C8_ReportFollowsPayload_AsClaimed ==
    RenderingOver =>
        /\ BulletsMatchStrengths
        /\ LinesMatch(SelectSeq(ReviewShown["suggestions_for_improvement"], HasBothKeys))
        /\ ReportCompleted

(***************************************************************************)
(* C9.  The user message of every request is the fixed resume/job-role     *)
(* text with resume_text and job_role in place when job_description is     *)
(* empty, and that text followed by the job-description block when it is   *)
(* not: it is determined by (resume_text, job_role, job_description).      *)
(***************************************************************************)
ResumeSection ==
    <<"Here is the resume to be reviewed:\n\n---\n">> \o resume_content.v
    \o <<"\n---\n\nTarget Job Role: ">> \o job_role \o <<"\n\n">>

C9_UserMessage ==
    \A i \in 1..Len(http_log) :
        LET msg == http_log[i].sent.contents
            n == Len(ResumeSection)
        IN  /\ Len(msg) >= n
            /\ SubSeq(msg, 1, n) = ResumeSection
            /\ job_description = << >> => Len(msg) = n
            /\ job_description # << >> =>
                  /\ Len(msg) = n + Len(job_description) + 2
                  /\ msg[n + 1] = "Here is the job description for a more tailored review:\n\n---\n"
                  /\ SubSeq(msg, n + 2, n + 1 + Len(job_description)) = job_description
                  /\ msg[Len(msg)] = "\n---"

C9_Witness ==
    /\ Len(http_log) > 0
    /\ job_description # << >>
    /\ selected_language_name = "German"

(***************************************************************************)
(* C10.  For a PDF upload, extract_text_from_pdf returns either the texts  *)
(* of all pages joined by newlines in page order, or, when opening or any  *)
(* page fails, None together with an extraction error; never a part of     *)
(* the pages.                                                              *)
(***************************************************************************)
RECURSIVE PageStart(_, _)
\* Where page i's text starts in the joined text.
PageStart(pages, i) ==
    IF i = 1 THEN 1 ELSE PageStart(pages, i - 1) + Len(pages[i - 1].text) + 1

\* The handler got past its checks, to a PDF upload, and has read it.
PdfRead ==
    /\ pc \notin {"Idle", "ReadResume"}
    /\ Truthy(job_role) /\ Truthy(apiKey)
    /\ uploaded_file # NoneVal
    /\ uploaded_file.type = "application/pdf"

AllPagesExtract ==
    /\ uploaded_file.opens
    /\ \A i \in 1..Len(uploaded_file.pages) : uploaded_file.pages[i].kind = "text"

C10_AllPagesOrNothing ==
    PdfRead =>
        IF AllPagesExtract
        THEN LET pages == uploaded_file.pages
                 n == Len(pages)
                 text == resume_content.v
             IN  /\ resume_content # NoneVal
                 /\ ~ExtractionErrorShown
                 /\ Len(text) = (IF n = 0 THEN 0
                                 ELSE PageStart(pages, n) + Len(pages[n].text) - 1)
                 /\ \A i \in 1..n :
                       /\ SubSeq(text, PageStart(pages, i),
                                 PageStart(pages, i) + Len(pages[i].text) - 1) = pages[i].text
                       /\ i > 1 => text[PageStart(pages, i) - 1] = "\n"
        ELSE /\ resume_content = NoneVal
             /\ Finished
             /\ Len(display) = 1
             /\ display[1].fn = "error"
             /\ display[1].body[1] = "Error extracting text from PDF: "

C10_Witness ==
    /\ PdfRead
    /\ Len(uploaded_file.pages) = 2
    /\ uploaded_file.pages[1] = [kind |-> "text", text |-> <<"Experienced analyst...">>]
    /\ uploaded_file.pages[2].kind = "raise"
    /\ resume_content = NoneVal

====
